---------------------------- MODULE Spec2Model ----------------------------
(***************************************************************************)
(* A model of the image-descriptor extension (src/unnamed/part_000, the    *)
(* current extension.ts): the img tag locator, the alt rewriter and the    *)
(* suggestAltText / translateAltText command handlers.                     *)
(*                                                                         *)
(* Text is a sequence of one-character strings.  Offsets are zero-based as *)
(* in the source; the character at offset k of s is s[k + 1].              *)
(***************************************************************************)
EXTENDS Integers, Sequences, FiniteSets, TLC

VARIABLES
    doc,            \* editor.document.getText(): the current document text
    cmd,            \* which command handler runs: "suggest" | "translate" | "none"
    pc,             \* the handler's position
    offset,         \* the cursor offset given to the locator when it is run alone
    imgElement,     \* the located tag text (match[0]), Null when none
    locStart,       \* match.index of the located tag in the text read at location time
    altText,        \* the text returned by the AI request (trimmed)
    newImgElement,  \* the tag text insertAltText last computed
    err,            \* message of the error the invocation ended with, "" when none
    msgs,           \* notifications shown to the user, in order
    edits,          \* the edits applied to the document by insertAltText, in order
    extEdits,       \* number of edits made to the document by someone else
    doc0,           \* the document text with only the edits of others applied
    steps,          \* what the running invocation has got done so far, in order
    reads,          \* the paths handed to fs.readFileSync, in order
    imageData,      \* what prepareImageData returned, Null when it did not return
    documentPath,   \* documentUri.fsPath as given to prepareImageData
    workspaceRoot,  \* workspaceFolder.uri.fsPath for that document, Null when none
    extracted,      \* what the attribute extractors returned when run alone
    other           \* the invocation that is suspended while this one runs

vars == <<doc, cmd, pc, offset, imgElement, locStart, altText, newImgElement,
          err, msgs, edits, extEdits, doc0, steps, reads, imageData,
          documentPath, workspaceRoot, extracted, other>>

\* What a call of prepareImageData leaves behind.
prepVars == <<reads, imageData, documentPath, workspaceRoot>>

\* ------------------------------------------------------------------ text

\* The value of a string-or-null variable holding null.
Null == <<"null">>

NoOffset == -1

Lower(c) ==
    CASE c = "I" -> "i"
      [] c = "M" -> "m"
      [] c = "G" -> "g"
      [] c = "A" -> "a"
      [] c = "L" -> "l"
      [] c = "T" -> "t"
      [] c = "S" -> "s"
      [] c = "R" -> "r"
      [] c = "C" -> "c"
      [] OTHER -> c

\* \s of a JavaScript regular expression, over the characters of the model.
IsWs(c) == c \in {" ", "\t", "\n"}

IsQuote(c) == c \in {"\"", "'"}

MinOf(S) == CHOOSE x \in S : \A y \in S : x <= y

\* s.substring(from, to): the characters at offsets from .. to - 1.
Substring(s, from, to) == SubSeq(s, from + 1, to)

RECURSIVE Concat(_)
Concat(ss) == IF ss = <<>> THEN <<>> ELSE Head(ss) \o Concat(Tail(ss))

\* The texts made of at most n of the pieces, one after the other.
RECURSIVE PieceSeqs(_, _)
PieceSeqs(pieces, n) ==
    IF n = 0 THEN {<<>>}
    ELSE LET shorter == PieceSeqs(pieces, n - 1)
         IN  shorter \cup {s \o p : s \in shorter, p \in pieces}

\* Whether pat (lower case) occurs in s at offset p, ignoring case (flag i).
MatchesAtCI(s, p, pat) ==
    /\ p >= 0
    /\ p + Len(pat) <= Len(s)
    /\ \A k \in 1..Len(pat) : Lower(s[p + k]) = pat[k]

\* Whether pat occurs literally in s at offset p.
MatchesAt(s, p, pat) ==
    /\ p >= 0
    /\ p + Len(pat) <= Len(s)
    /\ \A k \in 1..Len(pat) : s[p + k] = pat[k]

\* String.prototype.indexOf: the first offset at which pat occurs, or -1.
IndexOf(s, pat) ==
    LET hits == {p \in 0..(Len(s) - Len(pat)) : MatchesAt(s, p, pat)}
    IN  IF hits = {} THEN -1 ELSE MinOf(hits)

\* ----------------------------------------------------------- tag locator

ImgOpen == <<"<", "i", "m", "g">>

NoMatch == [index |-> -1, text |-> Null]

\* imgRegex.exec(text) with imgRegex.lastIndex = lastIndex, for
\* imgRegex = /<img[^>]*>/gi: the leftmost offset at or after lastIndex where
\* "<img" (any case) is followed by a '>' ; [^>]* stops at the first '>'.
ImgExec(text, lastIndex) ==
    LET closes(p) == {q \in (p + 4)..(Len(text) - 1) : text[q + 1] = ">"}
        starts == {p \in lastIndex..(Len(text) - 5) :
                      MatchesAtCI(text, p, ImgOpen) /\ closes(p) # {}}
    IN  IF starts = {} THEN NoMatch
        ELSE LET p == MinOf(starts)
                 q == MinOf(closes(p))
             IN  [index |-> p, text |-> Substring(text, p, q + 1)]

\* A cursor one past the closing '>' no longer counts as inside.
OffsetInMatch_EndExclusive(off, startOffset, endOffset) ==
    off >= startOffset /\ off < endOffset

\* The range reaches one offset too far.
OffsetInMatch_OffByOne(off, startOffset, endOffset) ==
    off >= startOffset /\ off <= endOffset + 1

\* The condition of the loop's if: the cursor lies in the match, both ends
\* included.
OffsetInMatch(off, startOffset, endOffset) ==
    off >= startOffset /\ off <= endOffset

\* The while loop of findImgElementAtPosition: the first match of the scan
\* whose range holds the offset, as [index, text]; NoMatch when the scan ends.
RECURSIVE FindImgMatch(_, _, _)
FindImgMatch(text, off, lastIndex) ==
    LET match == ImgExec(text, lastIndex)
    IN  IF match = NoMatch THEN NoMatch
        ELSE LET startOffset == match.index
                 endOffset == startOffset + Len(match.text)
             IN  IF OffsetInMatch(off, startOffset, endOffset)
                 THEN match
                 ELSE FindImgMatch(text, off, endOffset)

findImgElementAtPosition(text, off) == FindImgMatch(text, off, 0).text

\* ---------------------------------------------------- attribute regexes

\* The offset of the first character at or after offset j that \s does not
\* match (Len(s) when there is none): where a greedy \s* stops.
SkipWs(s, j) ==
    LET rest == {k \in j..(Len(s) - 1) : ~IsWs(s[k + 1])}
    IN  IF rest = {} THEN Len(s) ELSE MinOf(rest)

\* Where a match of /name\s*=\s*["']([^"']{min,})["']/i that starts at offset
\* p has its quotes: <<offset of the opening quote, offset of the closing
\* quote>>, or <<-1, -1>> when the pattern does not match at p.  The value
\* runs to the next quote character of either kind.
AttrQuotesAt(s, p, name, min) ==
    IF ~MatchesAtCI(s, p, name) THEN <<-1, -1>>
    ELSE LET j == SkipWs(s, p + Len(name))
         IN  IF j >= Len(s) \/ s[j + 1] # "=" THEN <<-1, -1>>
             ELSE LET k == SkipWs(s, j + 1)
                  IN  IF k >= Len(s) \/ ~IsQuote(s[k + 1]) THEN <<-1, -1>>
                      ELSE LET closing == {e \in (k + 1)..(Len(s) - 1) :
                                              IsQuote(s[e + 1])}
                           IN  IF closing = {} \/ MinOf(closing) - (k + 1) < min
                               THEN <<-1, -1>>
                               ELSE <<k, MinOf(closing)>>

\* The leftmost match of the attribute pattern in s: [index, end, open] with
\* end one past the closing quote and open the offset of the opening quote.
AttrExec(s, name, min) ==
    LET starts == {p \in 0..(Len(s) - 1) : AttrQuotesAt(s, p, name, min)[1] # -1}
    IN  IF starts = {} THEN [index |-> -1, end |-> -1, open |-> -1]
        ELSE LET p == MinOf(starts)
                 q == AttrQuotesAt(s, p, name, min)
             IN  [index |-> p, end |-> q[2] + 1, open |-> q[1]]

AltName == <<"a", "l", "t">>
SrcName == <<"s", "r", "c">>

\* altRegex = /alt\s*=\s*["'][^"']*["']/i
AltExec(s) == AttrExec(s, AltName, 0)

\* imgElement.match(/alt\s*=\s*["']([^"']*)["']/i): group 1 or null.
extractAltText(tag) ==
    LET m == AttrExec(tag, AltName, 0)
    IN  IF m.index = -1 THEN Null ELSE Substring(tag, m.open + 1, m.end - 1)

\* imgElement.match(/src\s*=\s*["']([^"']+)["']/i): group 1 or null.
extractSrcAttribute(tag) ==
    LET m == AttrExec(tag, SrcName, 1)
    IN  IF m.index = -1 THEN Null ELSE Substring(tag, m.open + 1, m.end - 1)

\* ----------------------------------------------------------- alt rewriter

\* The replacement text String.prototype.replace builds from a template given
\* as a string: $$ is '$', $& the matched text, $` the text before the match,
\* $' the text after it; the patterns have no capture groups, so a '$' before
\* anything else stands for itself.
RECURSIVE GetSubstitution(_, _, _, _)
GetSubstitution(tpl, matched, before, after) ==
    IF tpl = <<>> THEN <<>>
    ELSE IF tpl[1] = "$" /\ Len(tpl) >= 2 /\ tpl[2] \in {"$", "&", "`", "'"}
         THEN (CASE tpl[2] = "$" -> <<"$">>
                 [] tpl[2] = "&" -> matched
                 [] tpl[2] = "`" -> before
                 [] tpl[2] = "'" -> after)
              \o GetSubstitution(SubSeq(tpl, 3, Len(tpl)), matched, before, after)
         ELSE <<tpl[1]>> \o GetSubstitution(Tail(tpl), matched, before, after)

\* str.replace(regex, tpl) for a regex without flag g whose first match is
\* [index, end): only that match is replaced.
ReplaceSpan(str, index, end, tpl) ==
    LET before == Substring(str, 0, index)
        matched == Substring(str, index, end)
        after == Substring(str, end, Len(str))
    IN  before \o GetSubstitution(tpl, matched, before, after) \o after

\* `alt="${altText}"`
AltAttr(value) == <<"a", "l", "t", "=", "\"">> \o value \o <<"\"">>

\* altRegex.test(imgElement)
HasAlt(tag) == AltExec(tag).index # -1

\* The tag text insertAltText computes, with the existing attribute never
\* looked for: the new attribute is always added before the closing '>'.
NewImgElement_AlwaysInsert(tag, value) ==
    IF Len(tag) > 0 /\ tag[Len(tag)] = ">"
    THEN ReplaceSpan(tag, Len(tag) - 1, Len(tag), <<" ">> \o AltAttr(value) \o <<">">>)
    ELSE tag

\* The tag text insertAltText computes: the first quoted alt attribute
\* replaced when there is one, else the attribute added before a '>' that ends
\* the tag (/>$/ matches only at the end of the string).
NewImgElement(tag, value) ==
    IF HasAlt(tag)
    THEN LET m == AltExec(tag)
         IN  ReplaceSpan(tag, m.index, m.end, AltAttr(value))
    ELSE IF Len(tag) > 0 /\ tag[Len(tag)] = ">"
         THEN ReplaceSpan(tag, Len(tag) - 1, Len(tag),
                          <<" ">> \o AltAttr(value) \o <<">">>)
         ELSE tag

\* The document with the characters at offsets start .. end - 1 replaced.
ReplaceRange(text, start, end, new) ==
    Substring(text, 0, start) \o new \o Substring(text, end, Len(text))

\* ------------------------------------------------------- command handlers

\* What an invocation of the command c holds when it begins.
Invocation(c) ==
    [cmd |-> c, pc |-> "idle", imgElement |-> Null, locStart |-> -1,
     altText |-> <<>>, newImgElement |-> Null, err |-> "", steps |-> <<>>,
     reads |-> <<>>, imageData |-> Null, documentPath |-> Null,
     workspaceRoot |-> Null]

\* No second invocation is under way.
NoInvocation == [Invocation("none") EXCEPT !.pc = "none"]

GenPrefix == "Failed to generate alt text: "
TransPrefix == "Failed to translate alt text: "

ErrorMsg(prefix, text) == [kind |-> "error", prefix |-> prefix, text |-> text]
InfoMsg(text) == [kind |-> "info", prefix |-> "", text |-> text]

\* The prefix the catch block of the running command puts before error.message.
CatchPrefix == IF cmd = "translate" THEN TransPrefix ELSE GenPrefix

\* showErrorMessage(text) followed by return.
ShowErrorAndReturn(text) ==
    /\ msgs' = Append(msgs, ErrorMsg("", text))
    /\ err' = text
    /\ pc' = "failed"

\* throw new Error(text) inside the handler's try: the catch block shows it.
ThrowInTry(text) ==
    /\ msgs' = Append(msgs, ErrorMsg(CatchPrefix, text))
    /\ err' = text
    /\ pc' = "failed"

NotLocated == "Could not locate img element in document"

\* The offset insertAltText replaces at, taken from the location step instead
\* of a search of the current text.
InsertIndex_Stale == locStart

\* const imgIndex = text.indexOf(imgElement), on the text read at this point.
InsertIndex == IndexOf(doc, imgElement)

\* insertAltText with the imgIndex === -1 check left out: positionAt clamps
\* the offsets into the document and the edit is applied there.
InsertAltText_NoCheck ==
    /\ pc = "insert"
    /\ LET imgIndex == IF InsertIndex = -1 THEN 0 ELSE InsertIndex
           end == IF imgIndex + Len(imgElement) > Len(doc) THEN Len(doc)
                  ELSE imgIndex + Len(imgElement)
           new == NewImgElement(imgElement, altText)
       IN  /\ newImgElement' = new
           /\ doc' = ReplaceRange(doc, imgIndex, end, new)
           /\ edits' = Append(edits, [start |-> imgIndex, end |-> end,
                                      newText |-> new, before |-> doc])
           /\ msgs' = Append(msgs, InfoMsg("Alt text generated and inserted successfully!"))
           /\ pc' = "done"
           /\ err' = err
           /\ steps' = steps \o <<"rewritten", "applyEdit">>
    /\ UNCHANGED <<cmd, offset, imgElement, locStart, altText, extEdits, doc0,
                   prepVars, extracted, other>>

\* insertAltText applying its edit before it checks that the tag was found.
InsertAltText_EditThenFail ==
    /\ pc = "insert"
    /\ LET imgIndex == IF InsertIndex = -1 THEN 0 ELSE InsertIndex
           end == IF imgIndex + Len(imgElement) > Len(doc) THEN Len(doc)
                  ELSE imgIndex + Len(imgElement)
           new == NewImgElement(imgElement, altText)
       IN  /\ newImgElement' = new
           /\ doc' = ReplaceRange(doc, imgIndex, end, new)
           /\ edits' = Append(edits, [start |-> imgIndex, end |-> end,
                                      newText |-> new, before |-> doc])
           /\ IF InsertIndex = -1
              THEN ThrowInTry(NotLocated)
              ELSE /\ msgs' = Append(msgs, InfoMsg("Alt text generated and inserted successfully!"))
                   /\ pc' = "done"
                   /\ err' = err
           /\ steps' = steps \o <<"rewritten", "applyEdit">>
    /\ UNCHANGED <<cmd, offset, imgElement, locStart, altText, extEdits, doc0,
                   prepVars, extracted, other>>

\* insertAltText(editor, imgElement, altText), from document.getText() to the
\* notification.  Nothing is awaited between reading the text and handing the
\* edit to workspace.applyEdit, which replaces the range in one step and
\* reports whether it did; the result is not looked at.
InsertAltText ==
    /\ pc = "insert"
    /\ LET imgIndex == InsertIndex
       IN  IF imgIndex = -1
           THEN /\ ThrowInTry(NotLocated)
                /\ UNCHANGED <<doc, newImgElement, edits, steps>>
           ELSE LET new == NewImgElement(imgElement, altText)
                    end == imgIndex + Len(imgElement)
                IN  /\ newImgElement' = new
                    /\ \E applied \in BOOLEAN :
                          IF applied
                          THEN /\ doc' = ReplaceRange(doc, imgIndex, end, new)
                               /\ edits' = Append(edits,
                                     [start |-> imgIndex, end |-> end,
                                      newText |-> new, before |-> doc])
                          ELSE UNCHANGED <<doc, edits>>
                    /\ msgs' = Append(msgs,
                          InfoMsg("Alt text generated and inserted successfully!"))
                    /\ pc' = "done"
                    /\ err' = err
                    /\ steps' = steps \o <<"rewritten", "applyEdit">>
    /\ UNCHANGED <<cmd, offset, imgElement, locStart, altText, extEdits, doc0,
                   prepVars, extracted, other>>

\* ------------------------------------------------------- source resolver

MaxOf(S) == CHOOSE x \in S : \A y \in S : x >= y

\* src.startsWith("http://") || src.startsWith("https://")
IsUrl(src) ==
    \/ MatchesAt(src, 0, <<"h", "t", "t", "p", ":", "/", "/">>)
    \/ MatchesAt(src, 0, <<"h", "t", "t", "p", "s", ":", "/", "/">>)

\* The parts of a path between its '/' characters, empty parts included.
RECURSIVE SplitPath(_)
SplitPath(p) ==
    LET slashes == {i \in 0..(Len(p) - 1) : p[i + 1] = "/"}
    IN  IF slashes = {} THEN <<p>>
        ELSE LET i == MinOf(slashes)
             IN  <<Substring(p, 0, i)>> \o SplitPath(Substring(p, i + 1, Len(p)))

\* The parts put together again with '/' between them.
RECURSIVE JoinSegs(_)
JoinSegs(segs) ==
    IF segs = <<>> THEN <<>>
    ELSE IF Len(segs) = 1 THEN segs[1]
    ELSE segs[1] \o <<"/">> \o JoinSegs(Tail(segs))

\* normalizeString of path.posix: empty parts and "." are dropped, ".." takes
\* the part before it away; at the front of a relative path ".." stays, at
\* the root it is dropped.
RECURSIVE NormalizeSegs(_, _, _)
NormalizeSegs(segs, acc, allowAboveRoot) ==
    IF segs = <<>> THEN acc
    ELSE LET seg == Head(segs)
             rest == Tail(segs)
         IN  IF seg = <<>> \/ seg = <<".">>
             THEN NormalizeSegs(rest, acc, allowAboveRoot)
             ELSE IF seg # <<".", ".">>
             THEN NormalizeSegs(rest, Append(acc, seg), allowAboveRoot)
             ELSE IF acc # <<>> /\ acc[Len(acc)] # <<".", ".">>
             THEN NormalizeSegs(rest, SubSeq(acc, 1, Len(acc) - 1), allowAboveRoot)
             ELSE IF allowAboveRoot
             THEN NormalizeSegs(rest, Append(acc, seg), allowAboveRoot)
             ELSE NormalizeSegs(rest, acc, allowAboveRoot)

\* path.normalize(p) of path.posix.
PathNormalize(p) ==
    IF p = <<>> THEN <<".">>
    ELSE LET isAbsolute == p[1] = "/"
             trailingSeparator == p[Len(p)] = "/"
             body == JoinSegs(NormalizeSegs(SplitPath(p), <<>>, ~isAbsolute))
         IN  IF body = <<>>
             THEN (IF isAbsolute THEN <<"/">>
                   ELSE IF trailingSeparator THEN <<".", "/">> ELSE <<".">>)
             ELSE (IF isAbsolute THEN <<"/">> ELSE <<>>) \o body
                     \o (IF trailingSeparator THEN <<"/">> ELSE <<>>)

\* path.join(a, b): the non-empty arguments with '/' between them, normalized.
PathJoin(a, b) ==
    IF a = <<>> /\ b = <<>> THEN <<".">>
    ELSE IF a = <<>> THEN PathNormalize(b)
    ELSE IF b = <<>> THEN PathNormalize(a)
    ELSE PathNormalize(a \o <<"/">> \o b)

\* path.dirname(p): the path up to the last '/' that has a name after it.
Dirname(p) ==
    IF p = <<>> THEN <<".">>
    ELSE LET hasRoot == p[1] = "/"
             ends == {i \in 1..(Len(p) - 1) :
                         /\ p[i + 1] = "/"
                         /\ \E j \in (i + 1)..(Len(p) - 1) : p[j + 1] # "/"}
         IN  IF ends = {} THEN (IF hasRoot THEN <<"/">> ELSE <<".">>)
             ELSE IF hasRoot /\ MaxOf(ends) = 1 THEN <<"/", "/">>
             ELSE Substring(p, 0, MaxOf(ends))

\* path.extname(p): of the last name of the path (slashes after it left
\* aside), the text from its last '.' on; empty when the name has no '.',
\* begins with its only '.' or is "..".
Extname(p) ==
    LET named == {i \in 1..Len(p) : p[i] # "/"}
    IN  IF named = {} THEN <<>>
        ELSE LET end == MaxOf(named)
                 before == {i \in 1..end : p[i] = "/"}
                 base == SubSeq(p, IF before = {} THEN 1 ELSE MaxOf(before) + 1, end)
                 dots == {i \in 1..Len(base) : base[i] = "."}
             IN  IF dots = {} \/ MaxOf(dots) = 1 \/ base = <<".", ".">>
                 THEN <<>>
                 ELSE SubSeq(base, MaxOf(dots), Len(base))

UpperCaseLetters ==
    <<
       "A", "B", "C", "D", "E", "F", "G", "H", "I", "J", "K", "L", "M",
       "N", "O", "P", "Q", "R", "S", "T", "U", "V", "W", "X", "Y", "Z" >>

LowerCaseLetters ==
    <<
       "a", "b", "c", "d", "e", "f", "g", "h", "i", "j", "k", "l", "m",
       "n", "o", "p", "q", "r", "s", "t", "u", "v", "w", "x", "y", "z" >>

\* String.prototype.toLowerCase over the letters A to Z.
ToLowerCase(s) ==
    [i \in 1..Len(s) |->
        IF \E k \in 1..26 : UpperCaseLetters[k] = s[i]
        THEN LowerCaseLetters[CHOOSE k \in 1..26 : UpperCaseLetters[k] = s[i]]
        ELSE s[i]]

ImageJpeg == <<"i", "m", "a", "g", "e", "/", "j", "p", "e", "g">>
ImagePng == <<"i", "m", "a", "g", "e", "/", "p", "n", "g">>
ImageGif == <<"i", "m", "a", "g", "e", "/", "g", "i", "f">>
ImageWebp == <<"i", "m", "a", "g", "e", "/", "w", "e", "b", "p">>
ImageSvg == <<"i", "m", "a", "g", "e", "/", "s", "v", "g", "+", "x", "m", "l">>

\* The table applied to every extension as it is written, upper case not
\* lowered first.
MimeType_CaseSensitive(fullPath) ==
    LET ext == Extname(fullPath)
    IN  IF ext = <<".", "p", "n", "g">> THEN ImagePng
        ELSE IF ext = <<".", "g", "i", "f">> THEN ImageGif
        ELSE IF ext = <<".", "w", "e", "b", "p">> THEN ImageWebp
        ELSE IF ext = <<".", "s", "v", "g">> THEN ImageSvg
        ELSE ImageJpeg

\* mimeType: image/jpeg unless the lower-cased extension is in the table.
MimeType(fullPath) ==
    LET ext == ToLowerCase(Extname(fullPath))
    IN  IF ext = <<".", "p", "n", "g">> THEN ImagePng
        ELSE IF ext = <<".", "g", "i", "f">> THEN ImageGif
        ELSE IF ext = <<".", "w", "e", "b", "p">> THEN ImageWebp
        ELSE IF ext = <<".", "s", "v", "g">> THEN ImageSvg
        ELSE ImageJpeg

Base64Alphabet ==
    <<
       "A", "B", "C", "D", "E", "F", "G", "H", "I", "J", "K", "L", "M", "N", "O", "P",
       "Q", "R", "S", "T", "U", "V", "W", "X", "Y", "Z", "a", "b", "c", "d", "e", "f",
       "g", "h", "i", "j", "k", "l", "m", "n", "o", "p", "q", "r", "s", "t", "u", "v",
       "w", "x", "y", "z", "0", "1", "2", "3", "4", "5", "6", "7", "8", "9", "+", "/" >>

\* imageBuffer.toString("base64"): every three bytes give four characters of
\* six bits each; one or two bytes left over are padded with '='.
RECURSIVE Base64(_)
Base64(bytes) ==
    IF bytes = <<>> THEN <<>>
    ELSE LET b1 == bytes[1]
             b2 == IF Len(bytes) >= 2 THEN bytes[2] ELSE 0
             b3 == IF Len(bytes) >= 3 THEN bytes[3] ELSE 0
             c1 == Base64Alphabet[(b1 \div 4) + 1]
             c2 == Base64Alphabet[(b1 % 4) * 16 + (b2 \div 16) + 1]
             c3 == Base64Alphabet[(b2 % 16) * 4 + (b3 \div 64) + 1]
             c4 == Base64Alphabet[(b3 % 64) + 1]
         IN  IF Len(bytes) = 1 THEN <<c1, c2, "=", "=">>
             ELSE IF Len(bytes) = 2 THEN <<c1, c2, c3, "=">>
             ELSE <<c1, c2, c3, c4>> \o Base64(SubSeq(bytes, 4, Len(bytes)))

\* `data:${mimeType};base64,${base64}`
DataUri(mimeType, base64) ==
    <<"d", "a", "t", "a", ":">> \o mimeType \o <<";", "b", "a", "s", "e", "6", "4", ",">> \o base64

\* fullPath, with every local path taken from the directory of the document.
FullPath_DocumentDirOnly(src, fsPath, root) == PathJoin(Dirname(fsPath), src)

\* fullPath: src under the workspace folder when it begins with '/', else
\* under the directory of the document.
FullPath(src, fsPath, root) ==
    IF src # <<>> /\ src[1] = "/"
    THEN PathJoin(root, src)
    ELSE PathJoin(Dirname(fsPath), src)

\* In place of the bytes of a file: readFileSync throws.
Unreadable == <<-1>>

NoWorkspace == "No workspace folder found"
ReadFailed == "ENOENT: no such file or directory"

\* prepareImageData with http:// sources read from the disk like local ones.
prepareImageData_HttpIsLocal(src, fsPath, root, bytes) ==
    IF MatchesAt(src, 0, <<"h", "t", "t", "p", "s", ":", "/", "/">>)
    THEN [error |-> "", data |-> src, reads |-> <<>>]
    ELSE IF root = Null
    THEN [error |-> NoWorkspace, data |-> Null, reads |-> <<>>]
    ELSE LET fullPath == FullPath(src, fsPath, root)
         IN  IF bytes = Unreadable \/ fullPath[Len(fullPath)] = "/"
             THEN [error |-> ReadFailed, data |-> Null, reads |-> <<fullPath>>]
             ELSE [error |-> "", reads |-> <<fullPath>>,
                   data |-> DataUri(MimeType(fullPath), Base64(bytes))]

\* prepareImageData with the workspace folder looked for only where it is
\* used, for a src that begins with '/'.
prepareImageData_FolderWhenUsed(src, fsPath, root, bytes) ==
    IF IsUrl(src)
    THEN [error |-> "", data |-> src, reads |-> <<>>]
    ELSE IF root = Null /\ src[1] = "/"
    THEN [error |-> NoWorkspace, data |-> Null, reads |-> <<>>]
    ELSE LET fullPath == FullPath(src, fsPath, root)
         IN  IF bytes = Unreadable \/ fullPath[Len(fullPath)] = "/"
             THEN [error |-> ReadFailed, data |-> Null, reads |-> <<fullPath>>]
             ELSE [error |-> "", reads |-> <<fullPath>>,
                   data |-> DataUri(MimeType(fullPath), Base64(bytes))]

\* prepareImageData(src, documentUri) for a document at fsPath whose
\* workspace folder is root (Null: getWorkspaceFolder finds none) and a disk
\* on which readFileSync(fullPath) gives bytes (Unreadable: it throws; it throws for
\* every path that ends in '/').  The result tells the error thrown ("" when
\* none), the data returned and the paths handed to readFileSync.
prepareImageData(src, fsPath, root, bytes) ==
    IF IsUrl(src)
    THEN [error |-> "", data |-> src, reads |-> <<>>]
    ELSE IF root = Null
    THEN [error |-> NoWorkspace, data |-> Null, reads |-> <<>>]
    ELSE LET fullPath == FullPath(src, fsPath, root)
         IN  IF bytes = Unreadable \/ fullPath[Len(fullPath)] = "/"
             THEN [error |-> ReadFailed, data |-> Null, reads |-> <<fullPath>>]
             ELSE [error |-> "", reads |-> <<fullPath>>,
                   data |-> DataUri(MimeType(fullPath), Base64(bytes))]

\* ---------------------------------------------- command handlers (start)

NoProvider ==
    "Provider not configured. Please choose your preferred provider in the extension settings."
NoApiKey ==
    "API key not configured. Please set imageDescriptor.apiKey in the extension settings."

\* The suggestAltText handler from its invocation to the first point where
\* it waits for something outside: the fetch of getTaskResponseFromModel.
\* Everything before it runs without a pause (readFileSync is synchronous).
\* The cursor may be at any offset of the document; the offset is used by the
\* locator only: what the handler keeps of the location is the tag text
\* (locStart records where it was found).
\* folders holds the documents the command may be run in, as <<fsPath of the
\* document, fsPath of its workspace folder or Null>>, and contents what
\* readFileSync may give (Unreadable: it throws).
SuggestStartIn(folders, contents) ==
    /\ cmd = "suggest"
    /\ pc = "idle"
    /\ \/ \* !editor
          /\ ShowErrorAndReturn("No active editor found")
          /\ UNCHANGED <<imgElement, locStart, steps, prepVars>>
       \/ \E match \in {FindImgMatch(doc, off, 0) : off \in 0..Len(doc)} :
            LET src == extractSrcAttribute(match.text)
            IN  /\ imgElement' = match.text
                /\ locStart' = match.index
                /\ IF match.text = Null
                   THEN /\ ShowErrorAndReturn("No img element found at current position")
                        /\ UNCHANGED <<steps, prepVars>>
                   ELSE \E hasProvider, hasApiKey \in BOOLEAN :
                           IF ~hasProvider
                           THEN /\ ThrowInTry(NoProvider)
                                /\ steps' = steps \o <<"located">>
                                /\ UNCHANGED prepVars
                           ELSE IF src = Null \/ src = <<>>
                           THEN /\ ShowErrorAndReturn("No src attribute found in img element")
                                /\ steps' = steps \o <<"located", "provider">>
                                /\ UNCHANGED prepVars
                           ELSE \E folder \in folders :
                                \E prep \in {prepareImageData(src, folder[1], folder[2], bytes) :
                                                bytes \in contents} :
                                       /\ documentPath' = folder[1]
                                       /\ workspaceRoot' = folder[2]
                                       /\ reads' = reads \o prep.reads
                                       /\ imageData' = prep.data
                                       /\ IF prep.error # ""
                                          THEN /\ ThrowInTry(prep.error)
                                               /\ steps' = steps \o <<"located", "provider", "src">>
                                          ELSE IF ~hasApiKey
                                          THEN /\ ThrowInTry(NoApiKey)
                                               /\ steps' = steps \o <<"located", "provider", "src",
                                                                      "resolved">>
                                          ELSE /\ pc' = "awaitAI"
                                               /\ steps' = steps \o <<"located", "provider", "src",
                                                                      "resolved", "apiKey", "aiRequest">>
                                               /\ UNCHANGED <<msgs, err>>
    /\ UNCHANGED <<doc, cmd, offset, altText, newImgElement, edits, extEdits, doc0,
                   extracted, other>>

\* One document in a workspace folder, and the same document in no folder.
HandlerFolders == { <<<<"/", "p", "/", "d">>, <<"/", "p">>>>, <<<<"/", "p", "/", "d">>, Null>> }

\* The file is read as one byte, or cannot be read.
HandlerContents == { <<77>>, Unreadable }

\* The suggestAltText handler up to the fetch.
SuggestStart == SuggestStartIn(HandlerFolders, HandlerContents)

\* The translateAltText handler up to the fetch.  getActiveEditor() is called
\* before the try block: its error leaves the handler with no message shown.
TranslateStart ==
    /\ cmd = "translate"
    /\ pc = "idle"
    /\ \/ \* getActiveEditor() throws
          /\ err' = "No active editor found"
          /\ pc' = "failed"
          /\ UNCHANGED <<imgElement, locStart, msgs, steps>>
       \/ \E match \in {FindImgMatch(doc, off, 0) : off \in 0..Len(doc)} :
            LET alt == extractAltText(match.text)
            IN  /\ imgElement' = match.text
                /\ locStart' = match.index
                /\ IF match.text = Null
                   THEN /\ ShowErrorAndReturn("No img element found at current position")
                        /\ UNCHANGED steps
                   ELSE \E hasProvider, hasApiKey \in BOOLEAN :
                           IF ~hasProvider
                           THEN /\ ThrowInTry(NoProvider)
                                /\ steps' = steps \o <<"located">>
                           ELSE IF alt = Null \/ alt = <<>>
                           THEN /\ ShowErrorAndReturn("No alt text found for the img element")
                                /\ steps' = steps \o <<"located", "provider">>
                           ELSE IF ~hasApiKey
                           THEN /\ ThrowInTry(NoApiKey)
                                /\ steps' = steps \o <<"located", "provider", "alt">>
                           ELSE /\ pc' = "awaitAI"
                                /\ steps' = steps \o <<"located", "provider", "alt",
                                                       "apiKey", "aiRequest">>
                                /\ UNCHANGED <<msgs, err>>
    /\ UNCHANGED <<doc, cmd, offset, altText, newImgElement, edits, extEdits, doc0,
                   prepVars, extracted, other>>

\* The texts response.choices[0].message.content.trim() may be.
AltValues == {<<>>, <<"n">>, <<"$", "&">>}

\* The handler with a rejected fetch sent once more before it gives up.
AIResponse_Retry ==
    /\ pc = "awaitAI"
    /\ \E outcome \in {"ok", "rejected"} :
       \E value \in AltValues :
          IF outcome = "rejected"
          THEN /\ IF Len(steps) < 8
                  THEN /\ steps' = Append(steps, "aiRequest")
                       /\ UNCHANGED <<pc, msgs, err>>
                  ELSE /\ ThrowInTry("Failed in getTaskResponseFromModel: fetch failed")
                       /\ UNCHANGED steps
               /\ UNCHANGED altText
          ELSE /\ altText' = value
               /\ steps' = Append(steps, "aiResponse")
               /\ pc' = "insert"
               /\ UNCHANGED <<msgs, err>>
    /\ UNCHANGED <<doc, cmd, offset, imgElement, locStart, newImgElement, edits,
                   extEdits, doc0, prepVars, extracted, other>>

\* The fetch of getTaskResponseFromModel settles and the handler runs on to
\* the call of insertAltText: a rejected fetch, a response that is not ok or
\* a body without choices throws; otherwise the trimmed content is the alt
\* text (an empty translation is reported and the handler returns).
AIResponse ==
    /\ pc = "awaitAI"
    /\ \E outcome \in {"ok", "notOk", "rejected", "noChoices"} :
       \E value \in AltValues :
          IF outcome = "rejected"
          THEN /\ ThrowInTry("Failed in getTaskResponseFromModel: fetch failed")
               /\ UNCHANGED <<altText, steps>>
          ELSE IF outcome = "notOk"
          THEN /\ ThrowInTry("Failed in getTaskResponseFromModel: Failed to get task response from model: ")
               /\ UNCHANGED <<altText, steps>>
          ELSE IF outcome = "noChoices"
          THEN /\ ThrowInTry("Cannot read properties of undefined (reading '0')")
               /\ UNCHANGED <<altText, steps>>
          ELSE /\ altText' = value
               /\ steps' = Append(steps, "aiResponse")
               /\ IF cmd = "translate" /\ value = <<>>
                  THEN ShowErrorAndReturn("Failed to translate alt text. Please try again.")
                  ELSE /\ pc' = "insert"
                       /\ UNCHANGED <<msgs, err>>
    /\ UNCHANGED <<doc, cmd, offset, imgElement, locStart, newImgElement, edits,
                   extEdits, doc0, prepVars, extracted, other>>

MaxExtEdits == 1

\* What someone else types while the handler waits for the AI request: text
\* put at the start of the document, the located tag text pasted there, the
\* first or the last character deleted, or a whole img tag deleted.
ExternalEditResults ==
    { <<"x">> \o doc, imgElement \o doc }
    \cup (IF doc = <<>> THEN {} ELSE {Tail(doc), SubSeq(doc, 1, Len(doc) - 1)})
    \cup { ReplaceRange(doc, p, p + Len(ImgExec(doc, p).text), <<>>) :
             p \in {q \in 0..(Len(doc) - 1) : ImgExec(doc, q).index = q} }

\* The document changes under the waiting handler.
ExternalEdit ==
    /\ pc = "awaitAI"
    /\ extEdits < MaxExtEdits
    /\ \E new \in ExternalEditResults :
          /\ doc' = new
          /\ doc0' = new
    /\ extEdits' = extEdits + 1
    /\ UNCHANGED <<cmd, pc, offset, imgElement, locStart, altText, newImgElement,
                   err, msgs, edits, steps, prepVars, extracted, other>>

\* Pieces the documents the two commands run on are built from.
DocPieces ==
    { <<"<", "i", "m", "g", " ", "s", "r", "c", "=", "\"", "a", "\"", ">">>,
      <<"<", "i", "m", "g", " ", "s", "r", "c", "=", "\"", "a", "\"", " ",
        "a", "l", "t", "=", "\"", "o", "\"", ">">>,
      <<"<", "i", "m", "g", " ", "s", "r", "c", "=", "\"", "h", "t", "t", "p",
        ":", "/", "/", "a", "\"", ">">>,
      <<"<", "i", "m", "g", " ", "a", "l", "t", "=", "\"", "\"", ">">>,
      <<"x">> }

MaxDocPieces == 2

Docs == PieceSeqs(DocPieces, MaxDocPieces)

Init ==
    /\ doc \in Docs
    /\ cmd \in {"suggest", "translate"}
    /\ pc = "idle"
    /\ offset = NoOffset
    /\ imgElement = Null
    /\ locStart = -1
    /\ altText = <<>>
    /\ newImgElement = Null
    /\ err = ""
    /\ msgs = <<>>
    /\ edits = <<>>
    /\ extEdits = 0
    /\ doc0 = doc
    /\ steps = <<>>
    /\ reads = <<>>
    /\ imageData = Null
    /\ documentPath = Null
    /\ workspaceRoot = Null
    /\ extracted = Null
    /\ other = NoInvocation

Next ==
    \/ SuggestStart
    \/ TranslateStart
    \/ AIResponse
    \/ ExternalEdit
    \/ InsertAltText

Spec == Init /\ [][Next]_vars

\* ------------------------------------------------------- inputs (locator)

\* Pieces the documents given to the locator are built from: a whole tag,
\* an upper-case opening, a lone '>', plain text and an unclosed opening.
LocPieces ==
    { <<"<", "i", "m", "g", ">">>, <<"<", "I", "M", "G", " ">>, <<">">>,
      <<"x">>, <<"<", "i", "m", "g">> }

MaxLocPieces == 4

LocDocs == PieceSeqs(LocPieces, MaxLocPieces)

InitLocate ==
    /\ doc \in LocDocs
    /\ cmd = "none"
    /\ pc = "locate"
    /\ offset = NoOffset
    /\ imgElement = Null
    /\ locStart = -1
    /\ altText = <<>>
    /\ newImgElement = Null
    /\ err = ""
    /\ msgs = <<>>
    /\ edits = <<>>
    /\ extEdits = 0
    /\ doc0 = doc
    /\ steps = <<>>
    /\ reads = <<>>
    /\ imageData = Null
    /\ documentPath = Null
    /\ workspaceRoot = Null
    /\ extracted = Null
    /\ other = NoInvocation

\* findImgElementAtPosition(document, position) for a cursor anywhere in the
\* document.
Locate ==
    /\ pc = "locate"
    /\ \E off \in 0..Len(doc) :
          LET match == FindImgMatch(doc, off, 0)
          IN  /\ offset' = off
              /\ imgElement' = match.text
              /\ locStart' = match.index
    /\ pc' = "located"
    /\ UNCHANGED <<doc, cmd, altText, newImgElement, err, msgs, edits, extEdits,
                   doc0, steps, prepVars, extracted, other>>

NextLocate == Locate

SpecLocate == InitLocate /\ [][NextLocate]_vars

\* ------------------------------------------------------ inputs (rewriter)

\* Attributes and attribute fragments the tags given to the rewriter are
\* built from; a located tag is "<img", no '>' , then '>'.
TagPieces ==
    { <<" ", "s", "r", "c", "=", "\"", "a", "\"">>,
      <<" ", "a", "l", "t", "=", "\"", "o", "\"">>,
      <<" ", "A", "L", "T", " ", "=", " ", "'", "o", "'">>,
      <<" ", "a", "l", "t", "=", "\"">>,
      <<" ", "d", "a", "t", "a", "-", "a", "l", "t", "=", "\"", "d", "\"">> }

MaxTagPieces == 2

RewriteTags == {ImgOpen \o t \o <<">">> : t \in PieceSeqs(TagPieces, MaxTagPieces)}

\* Pieces of the alt values the AI request may return: plain characters,
\* quotes, angle brackets, '$' and the two-character sequences that mean
\* something in a replacement template.
AltPieces ==
    { <<"v">>, <<"\"">>, <<"'">>, <<"<">>, <<">">>, <<"$">>,
      <<"$", "&">>, <<"$", "$">>, <<"$", "`">>, <<"$", "'">> }

MaxAltPieces == 1

RewriteValues == PieceSeqs(AltPieces, MaxAltPieces)

\* A suggest invocation that located a tag of the document and received the
\* alt text, about to call insertAltText.
InitRewrite ==
    /\ imgElement \in RewriteTags
    /\ altText \in RewriteValues
    /\ doc = <<"x">> \o imgElement \o <<"y">>
    /\ cmd = "suggest"
    /\ pc = "insert"
    /\ offset = 1
    /\ locStart = 1
    /\ newImgElement = Null
    /\ err = ""
    /\ msgs = <<>>
    /\ edits = <<>>
    /\ extEdits = 0
    /\ doc0 = doc
    /\ steps = <<>>
    /\ reads = <<>>
    /\ imageData = Null
    /\ documentPath = Null
    /\ workspaceRoot = Null
    /\ extracted = Null
    /\ other = NoInvocation

\* The command run once more on the tag it has just rewritten, the AI request
\* returning the same text: insertAltText is called with the new tag text.
RewriteAgain ==
    /\ pc = "done"
    /\ Len(msgs) = 1
    /\ Len(edits) = 1
    /\ imgElement' = newImgElement
    /\ locStart' = edits[1].start
    /\ pc' = "insert"
    /\ UNCHANGED <<doc, cmd, offset, altText, newImgElement, err, msgs, edits,
                   extEdits, doc0, steps, prepVars, extracted, other>>

NextRewrite == InsertAltText \/ RewriteAgain

SpecRewrite == InitRewrite /\ [][NextRewrite]_vars

\* ------------------------------------------------------ inputs (resolver)

\* Pieces the src values given to the resolver are built from.
SrcPieces ==
    { <<"/">>, <<"a">>, <<".", ".">>, <<".", "p", "n", "g">>, <<".", "S", "V", "G">>, <<".", "g", "i", "f">>, <<".", "w", "e", "b", "p">>, <<".", "x", "y", "z">>,
      <<"h", "t", "t", "p", ":", "/", "/">>, <<"h", "t", "t", "p", "s", ":", "/", "/">>, <<"i", "m", "a", "g", "e", "s", "/", "c", "a", "t", ".", "p", "n", "g">> }

MaxSrcPieces == 2

Srcs == PieceSeqs(SrcPieces, MaxSrcPieces)

\* A document at the top of its workspace folder, one in a directory below
\* it, and one that is in no workspace folder.
ResolveFolders ==
    { <<<<"/", "p", "r", "o", "j", "/", "p", "a", "g", "e", ".", "h", "t", "m", "l">>, <<"/", "p", "r", "o", "j">>>>,
      <<<<"/", "p", "r", "o", "j", "/", "s", "u", "b", "/", "p", "a", "g", "e", ".", "h", "t", "m", "l">>, <<"/", "p", "r", "o", "j">>>>,
      <<<<"/", "p", "r", "o", "j", "/", "p", "a", "g", "e", ".", "h", "t", "m", "l">>, Null>> }

\* The file holds two bytes or four, or cannot be read.
ResolveContents == { <<77, 97>>, <<77, 97, 110, 33>>, Unreadable }

\* The suggestAltText command about to run on a document that is one img tag.
InitResolve ==
    /\ \E src \in Srcs :
          doc = <<"<", "i", "m", "g", " ", "s", "r", "c", "=", "\"">> \o src \o <<"\"", ">">>
    /\ cmd = "suggest"
    /\ pc = "idle"
    /\ offset = NoOffset
    /\ imgElement = Null
    /\ locStart = -1
    /\ altText = <<>>
    /\ newImgElement = Null
    /\ err = ""
    /\ msgs = <<>>
    /\ edits = <<>>
    /\ extEdits = 0
    /\ doc0 = doc
    /\ steps = <<>>
    /\ reads = <<>>
    /\ imageData = Null
    /\ documentPath = Null
    /\ workspaceRoot = Null
    /\ extracted = Null
    /\ other = NoInvocation

\* The suggestAltText handler up to the fetch, for the documents, folders and
\* files above.
ResolveSuggestStart == SuggestStartIn(ResolveFolders, ResolveContents)

NextResolve ==
    \/ ResolveSuggestStart
    \/ AIResponse
    \/ InsertAltText

SpecResolve == InitResolve /\ [][NextResolve]_vars

\* ----------------------------------------------------- inputs (extractor)

\* Attributes a tag may hold before its alt attribute.
ExtractPieces ==
    { <<" ", "s", "r", "c", "=", "\"", "a", "\"">>, <<" ", "d", "a", "t", "a", "-", "a", "l", "t", "=", "\"", "d", "\"">>, <<" ", "t", "i", "t", "l", "e", "=", "'", "t", "'">>, <<" ", "S", "R", "C", " ", "=", " ", "'", "b", "'">> }

AttrsBefore == PieceSeqs(ExtractPieces, 1)

\* A tag built with alt="X" as its last attribute, for a value X, or built
\* without an alt attribute; altText holds X.
InitExtract ==
    /\ \E before \in AttrsBefore :
          \/ /\ altText \in RewriteValues
             /\ imgElement = ImgOpen \o before \o <<" ">> \o AltAttr(altText) \o <<">">>
          \/ /\ altText = <<>>
             /\ imgElement = ImgOpen \o before \o <<">">>
    /\ doc = imgElement
    /\ cmd = "none"
    /\ pc = "extract"
    /\ offset = NoOffset
    /\ locStart = 0
    /\ newImgElement = Null
    /\ err = ""
    /\ msgs = <<>>
    /\ edits = <<>>
    /\ extEdits = 0
    /\ doc0 = doc
    /\ steps = <<>>
    /\ reads = <<>>
    /\ imageData = Null
    /\ documentPath = Null
    /\ workspaceRoot = Null
    /\ extracted = Null
    /\ other = NoInvocation

\* extractAltText(imgElement) and extractSrcAttribute(imgElement).
Extract ==
    /\ pc = "extract"
    /\ extracted' = [alt |-> extractAltText(imgElement),
                     src |-> extractSrcAttribute(imgElement)]
    /\ pc' = "extracted"
    /\ UNCHANGED <<doc, cmd, offset, imgElement, locStart, altText, newImgElement,
                   err, msgs, edits, extEdits, doc0, steps, prepVars, other>>

NextExtract == Extract

SpecExtract == InitExtract /\ [][NextExtract]_vars

\* --------------------------------------------- inputs (two invocations)

\* Pieces the documents two invocations run on are built from.
OverlapPieces ==
    { <<"<", "i", "m", "g", " ", "s", "r", "c", "=", "\"", "h", "t", "t", "p", ":", "/", "/", "a", "\"", " ", "a", "l", "t", "=", "\"", "o", "\"", ">">>, <<"x">> }

MaxOverlapPieces == 2

OverlapDocs == PieceSeqs(OverlapPieces, MaxOverlapPieces)

\* Two invocations of the commands on one document: the first is about to
\* run, the second has been asked for and runs when the first one waits.
InitOverlap ==
    /\ doc \in OverlapDocs
    /\ cmd \in {"suggest", "translate"}
    /\ \E c \in {"suggest", "translate"} : other = Invocation(c)
    /\ pc = "idle"
    /\ offset = NoOffset
    /\ imgElement = Null
    /\ locStart = -1
    /\ altText = <<>>
    /\ newImgElement = Null
    /\ err = ""
    /\ msgs = <<>>
    /\ edits = <<>>
    /\ extEdits = 0
    /\ doc0 = doc
    /\ steps = <<>>
    /\ reads = <<>>
    /\ imageData = Null
    /\ documentPath = Null
    /\ workspaceRoot = Null
    /\ extracted = Null

\* The extension host runs one handler at a time: the running invocation
\* gives way only where it awaits the fetch or when it has ended, and the
\* other invocation then starts or goes on from its own await.
Switch ==
    /\ pc \in {"awaitAI", "done", "failed"}
    /\ other.pc \in {"idle", "awaitAI"}
    /\ other' = [cmd |-> cmd, pc |-> pc, imgElement |-> imgElement,
                 locStart |-> locStart, altText |-> altText,
                 newImgElement |-> newImgElement, err |-> err, steps |-> steps,
                 reads |-> reads, imageData |-> imageData,
                 documentPath |-> documentPath, workspaceRoot |-> workspaceRoot]
    /\ cmd' = other.cmd
    /\ pc' = other.pc
    /\ imgElement' = other.imgElement
    /\ locStart' = other.locStart
    /\ altText' = other.altText
    /\ newImgElement' = other.newImgElement
    /\ err' = other.err
    /\ steps' = other.steps
    /\ reads' = other.reads
    /\ imageData' = other.imageData
    /\ documentPath' = other.documentPath
    /\ workspaceRoot' = other.workspaceRoot
    /\ UNCHANGED <<doc, offset, msgs, edits, extEdits, doc0, extracted>>

NextOverlap ==
    \/ SuggestStart
    \/ TranslateStart
    \/ AIResponse
    \/ InsertAltText
    \/ Switch

SpecOverlap == InitOverlap /\ [][NextOverlap]_vars

\* ------------------------------------------------------ claims: locator

\* Whether the n characters of text at offset p are one match of
\* /<img[^>]*>/i: "<img" in any case, then no '>' until the last character.
IsImgTagAt(text, p, n) ==
    /\ n >= 5
    /\ p + n <= Len(text)
    /\ MatchesAtCI(text, p, ImgOpen)
    /\ text[p + n] = ">"
    /\ \A k \in (p + 5)..(p + n - 1) : text[k] # ">"

\* Every match of the pattern in text, as <<start, end>>, end = start + length.
TagSpans(text) ==
    LET opens == {p \in 0..(Len(text) - 5) : MatchesAtCI(text, p, ImgOpen)}
    IN  {<<p, p + n>> : <<p, n>> \in
            {<<p, n>> \in opens \X (5..Len(text)) : IsImgTagAt(text, p, n)}}

\* The matches a global scan reports: a match does not begin inside an
\* earlier one.
ScanSpans(text) ==
    LET all == TagSpans(text)
    IN  {t \in all : \A u \in all : u[1] < t[1] => u[2] <= t[1]}

\* The pairs of matches of the scan with no match of the scan between them.
AdjacentSpans(text) ==
    LET scan == ScanSpans(text)
    IN  {<<t, u>> \in scan \X scan :
            /\ t[2] <= u[1]
            /\ \A v \in scan : ~(t[1] < v[1] /\ v[1] < u[1])}

\* C1: the locator returns the first match of the scan whose range, both
\* ends included (start <= offset <= start + length), holds the cursor
\* offset, and null when no match does.
C1_LocateFirstContaining ==
    pc = "located" =>
        LET hits == {t \in ScanSpans(doc) : t[1] <= offset /\ offset <= t[2]}
        IN  IF hits = {}
            THEN imgElement = Null
            ELSE LET t == CHOOSE t \in hits : \A u \in hits : t[1] <= u[1]
                 IN  /\ imgElement = Substring(doc, t[1], t[2])
                     /\ locStart = t[1]

\* C1 witness: the cursor sits one past the closing '>' of a tag that is not
\* the first of the document, and that tag is returned.
C1_Witness ==
    /\ pc = "located"
    /\ imgElement # Null
    /\ offset = locStart + Len(imgElement)
    /\ \E t \in ScanSpans(doc) : t[2] < locStart

\* C2 as stated: at every offset of the gap between two tags (after the
\* first tag's '>' and before the second tag's '<') the locator returns null.
C2_GapIsNotFound ==
    pc = "located" =>
        \A g \in AdjacentSpans(doc) :
            (g[1][2] <= offset /\ offset < g[2][1]) => imgElement = Null

\* C2 amended: at every offset strictly inside the gap, that is past the
\* offset that follows the first tag's '>' and before the second tag's '<',
\* the locator returns null.
C2_StrictGapIsNotFound ==
    pc = "located" =>
        \A g \in AdjacentSpans(doc) :
            (g[1][2] < offset /\ offset < g[2][1]) => imgElement = Null

\* C2 witness: the cursor is strictly inside a gap and nothing is located.
C2_Witness ==
    /\ pc = "located"
    /\ imgElement = Null
    /\ \E g \in AdjacentSpans(doc) : g[1][2] < offset /\ offset < g[2][1]

\* ------------------------------------------------------ claims: handlers

\* C3 as stated: when nobody else edits the document during the invocation,
\* the edit insertAltText applies changes nothing outside the tag span
\* located at the cursor: the text before the span and the text after it are
\* as they were.
C3_EditStaysInLocatedSpan ==
    (pc = "done" /\ extEdits = 0 /\ Len(edits) = 1) =>
        LET spanEnd == locStart + Len(imgElement)
            tail == Len(doc0) - spanEnd
        IN  /\ Substring(doc, 0, locStart) = Substring(doc0, 0, locStart)
            /\ Len(doc) >= locStart + tail
            /\ Substring(doc, Len(doc) - tail, Len(doc))
                  = Substring(doc0, spanEnd, Len(doc0))

\* The step is insertAltText running to its end.
InsertStep == pc = "insert" /\ pc' # "insert"

\* C4: when the located tag text no longer occurs in the current document
\* text, insertAltText fails with "Could not locate img element in document",
\* which is shown to the user, and applies no edit.
C4_VanishedTagFails ==
    [][(InsertStep /\ IndexOf(doc, imgElement) = -1) =>
          /\ pc' = "failed"
          /\ err' = NotLocated
          /\ msgs' = Append(msgs, ErrorMsg(CatchPrefix, NotLocated))
          /\ doc' = doc
          /\ edits' = edits]_vars

\* C4 witness: the document was edited while the handler waited, and the
\* handler ended with the error and without an edit.
C4_Witness ==
    /\ pc = "failed"
    /\ err = NotLocated
    /\ extEdits > 0
    /\ edits = <<>>
    /\ IndexOf(doc, imgElement) = -1

\* C5: every edit insertAltText applies replaces a range of the text read at
\* that moment that holds exactly the located tag text, whatever edits others
\* made since the location; the rest of the text is kept.
C5_EditRangeHoldsTag ==
    [][Len(edits') = Len(edits) + 1 =>
          LET e == edits'[Len(edits')]
          IN  /\ e.start >= 0
              /\ e.end = e.start + Len(imgElement)
              /\ e.end <= Len(doc)
              /\ Substring(doc, e.start, e.end) = imgElement
              /\ doc' = Substring(doc, 0, e.start) \o e.newText
                          \o Substring(doc, e.end, Len(doc))]_vars

\* C5 witness: the tag moved while the handler waited and the edit was
\* applied where the tag then was, not where it had been located.
C5_Witness ==
    /\ pc = "done"
    /\ extEdits > 0
    /\ Len(edits) = 1
    /\ edits[1].start # locStart
    /\ Substring(edits[1].before, edits[1].start, edits[1].end) = imgElement

\* C6: an invocation that ends in a failure has applied no edit: the
\* document holds only what others did to it.
C6_FailureLeavesDocument ==
    pc = "failed" => (edits = <<>> /\ doc = doc0)

\* C6 witness: the AI request failed after the document changed under the
\* waiting handler, and no edit was applied.
C6_Witness ==
    /\ pc = "failed"
    /\ err = "Failed in getTaskResponseFromModel: fetch failed"
    /\ extEdits > 0
    /\ edits = <<>>

\* ----------------------------------------------------- claims: rewriter

\* The first call of insertAltText has returned after its edit was applied.
FirstRewriteDone == pc = "done" /\ Len(msgs) = 1 /\ Len(edits) = 1

\* The tag text the first call of insertAltText was given.
FirstTag == Substring(edits[1].before, edits[1].start, edits[1].end)

\* Whether the tag has an attribute whose whole name is alt: "alt" in any
\* case right after white space.
HasAltName(tag) ==
    \E p \in 1..(Len(tag) - 3) : IsWs(tag[p]) /\ MatchesAtCI(tag, p, AltName)

\* C7 as stated: a tag that has a quoted alt attribute becomes the same tag
\* with that whole attribute replaced by alt="<newAltValue>", whatever the
\* new value.
C7_ReplaceIsExact ==
    (FirstRewriteDone /\ HasAlt(FirstTag)) =>
        LET m == AltExec(FirstTag)
        IN  newImgElement =
                Substring(FirstTag, 0, m.index) \o AltAttr(altText)
                    \o Substring(FirstTag, m.end, Len(FirstTag))

\* C8 as stated: a tag with no alt attribute becomes the same tag with
\* ' alt="<newAltValue>"' put before its closing '>', whatever the new value.
C8_InsertIsExact ==
    (FirstRewriteDone /\ ~HasAltName(FirstTag)) =>
        newImgElement =
            Substring(FirstTag, 0, Len(FirstTag) - 1)
                \o <<" ">> \o AltAttr(altText) \o <<">">>

SecondRewriteDone == pc = "done" /\ Len(msgs) = 2

\* Whether the second call left the text as it was: it computed the tag text
\* it was given, and an edit it applied changed nothing.
SecondRewriteChangedNothing ==
    /\ newImgElement = imgElement
    /\ Len(edits) = 2 => doc = edits[2].before

PlainValue(value) ==
    /\ \A k \in 1..Len(value) : ~IsQuote(value[k])
    /\ \A k \in 1..(Len(value) - 1) :
          value[k] = "$" => value[k + 1] \notin {"$", "&", "`", "'"}

\* Whether the tag holds alt= (any case, white space allowed around '=')
\* followed by a quote character.
HasAltOpening(tag) ==
    \E p \in 0..(Len(tag) - 1) :
        /\ MatchesAtCI(tag, p, AltName)
        /\ LET j == SkipWs(tag, p + 3)
           IN  /\ j < Len(tag)
               /\ tag[j + 1] = "="
               /\ LET k == SkipWs(tag, j + 1)
                  IN  k < Len(tag) /\ IsQuote(tag[k + 1])

EndsWithAlt(tag, X) ==
    LET tail == <<" ">> \o AltAttr(X) \o <<">">>
    IN  /\ Len(tag) >= Len(tail)
        /\ SubSeq(tag, Len(tag) - Len(tail) + 1, Len(tag)) = tail

\* C11 as stated: from a tag built with alt="X" the extractor returns X for
\* every value X, the empty text for the empty X, and it returns null only
\* for a tag that has no alt attribute.
C11_ExtractRoundTrip ==
    pc = "extracted" =>
        /\ EndsWithAlt(imgElement, altText) => extracted.alt = altText
        /\ extracted.alt = Null => ~HasAltName(imgElement)

\* ------------------------------------------- claims: handlers (attributes)

\* C12 as stated: a tag that carries alt="" does not make the translate
\* command end with the error of the missing alt text, and a tag that
\* carries src="" does not make the suggest command end with the error of
\* the missing src attribute.
C12_EmptyIsNotMissing ==
    (pc = "failed" /\ imgElement # Null) =>
        /\ (cmd = "translate" /\ IndexOf(imgElement, <<" ", "a", "l", "t", "=", "\"", "\"">>) # -1)
              => err # "No alt text found for the img element"
        /\ (cmd = "suggest" /\ IndexOf(imgElement, <<" ", "s", "r", "c", "=", "\"", "\"">>) # -1)
              => err # "No src attribute found in img element"

\* ------------------------------------------------------ claims: resolver

\* The src value the document of the resolver runs was built with.
DocSrc == Substring(doc0, 10, Len(doc0) - 2)

IsHttpSrc(src) ==
    MatchesAt(src, 0, <<"h", "t", "t", "p", ":", "/", "/">>) \/ MatchesAt(src, 0, <<"h", "t", "t", "p", "s", ":", "/", "/">>)

\* Whether the running invocation has got the step done.
HasStep(name) == \E i \in DOMAIN steps : steps[i] = name

\* C13: for a src that starts with http:// or https://, prepareImageData
\* returns the src as it is and reads no file, with or without a workspace
\* folder.
C13_UrlPassthrough ==
    (HasStep("src") /\ IsHttpSrc(DocSrc)) =>
        /\ imageData = DocSrc
        /\ reads = <<>>
        /\ HasStep("resolved")

\* C13 witness: an http URL was resolved for a document in no workspace
\* folder; it is returned as it is and nothing was read.
C13_Witness ==
    /\ pc = "awaitAI"
    /\ MatchesAt(DocSrc, 0, <<"h", "t", "t", "p", ":", "/", "/">>)
    /\ workspaceRoot = Null
    /\ imageData = DocSrc
    /\ reads = <<>>

\* C14: at most one file is read; for a src that is no URL it is the
\* workspace folder joined with src when src begins with '/', else the
\* directory of the document joined with src: images/cat.png in
\* /proj/page.html reads /proj/images/cat.png, and /a in /proj/sub/page.html
\* of the workspace /proj reads /proj/a.
C14_PathPolicy ==
    /\ Len(reads) <= 1
    /\ (HasStep("src") /\ ~IsHttpSrc(DocSrc) /\ workspaceRoot # Null) =>
          reads = << IF DocSrc[1] = "/"
                     THEN PathJoin(workspaceRoot, DocSrc)
                     ELSE PathJoin(Dirname(documentPath), DocSrc) >>
    /\ (HasStep("src") /\ DocSrc = <<"i", "m", "a", "g", "e", "s", "/", "c", "a", "t", ".", "p", "n", "g">> /\ workspaceRoot # Null
            /\ documentPath = <<"/", "p", "r", "o", "j", "/", "p", "a", "g", "e", ".", "h", "t", "m", "l">>) =>
          reads = << <<"/", "p", "r", "o", "j", "/", "i", "m", "a", "g", "e", "s", "/", "c", "a", "t", ".", "p", "n", "g">> >>
    /\ (HasStep("src") /\ DocSrc = <<"/", "a">> /\ documentPath = <<"/", "p", "r", "o", "j", "/", "s", "u", "b", "/", "p", "a", "g", "e", ".", "h", "t", "m", "l">>) =>
          reads = << <<"/", "p", "r", "o", "j", "/", "a">> >>

\* C14 witness: a src with a leading '/' in a document below the workspace
\* folder was read from the workspace folder.
C14_Witness ==
    /\ pc = "awaitAI"
    /\ DocSrc = <<"/", "a">>
    /\ documentPath = <<"/", "p", "r", "o", "j", "/", "s", "u", "b", "/", "p", "a", "g", "e", ".", "h", "t", "m", "l">>
    /\ workspaceRoot = <<"/", "p", "r", "o", "j">>
    /\ reads = << <<"/", "p", "r", "o", "j", "/", "a">> >>

\* C15: for a src that is no URL and a document in no workspace folder the
\* command ends with "No workspace folder found", shown to the user, before
\* any file is read; no AI request is sent and no edit is applied.
C15_NoWorkspaceFails ==
    (HasStep("src") /\ ~IsHttpSrc(DocSrc) /\ workspaceRoot = Null) =>
        /\ pc = "failed"
        /\ err = "No workspace folder found"
        /\ msgs = << ErrorMsg(GenPrefix, "No workspace folder found") >>
        /\ reads = <<>>
        /\ imageData = Null
        /\ ~HasStep("aiRequest")
        /\ edits = <<>>
        /\ doc = doc0

\* C15 witness: a src with a leading '/' failed for want of a workspace
\* folder.
C15_Witness ==
    /\ pc = "failed"
    /\ HasStep("src")
    /\ DocSrc[1] = "/"
    /\ workspaceRoot = Null
    /\ err = "No workspace folder found"
    /\ reads = <<>>

\* The characters of a base64 payload.
Base64Chars == {Base64Alphabet[i] : i \in 1..64} \cup {"="}

\* C16: the data returned for a local file is data:<mime>;base64,<payload>
\* with the MIME type the table gives for the lower-cased extension of the
\* path read, image/jpeg for every extension out of the table and for none.
C16_MimeInference ==
    (imageData # Null /\ ~IsHttpSrc(DocSrc)) =>
        /\ Len(reads) = 1
        /\ LET ext == ToLowerCase(Extname(reads[1]))
               mime == CASE ext = <<".", "p", "n", "g">> -> <<"i", "m", "a", "g", "e", "/", "p", "n", "g">>
                         [] ext = <<".", "g", "i", "f">> -> <<"i", "m", "a", "g", "e", "/", "g", "i", "f">>
                         [] ext = <<".", "w", "e", "b", "p">> -> <<"i", "m", "a", "g", "e", "/", "w", "e", "b", "p">>
                         [] ext = <<".", "s", "v", "g">> -> <<"i", "m", "a", "g", "e", "/", "s", "v", "g", "+", "x", "m", "l">>
                         [] OTHER -> <<"i", "m", "a", "g", "e", "/", "j", "p", "e", "g">>
               head == <<"d", "a", "t", "a", ":">> \o mime \o <<";", "b", "a", "s", "e", "6", "4", ",">>
           IN  /\ MatchesAt(imageData, 0, head)
               /\ \A k \in (Len(head) + 1)..Len(imageData) :
                     imageData[k] \in Base64Chars

\* C16 witness: a file with the extension .SVG and the bytes of "Man!" was
\* resolved to an image/svg+xml data URI.
C16_Witness ==
    /\ pc = "awaitAI"
    /\ Len(reads) = 1
    /\ Extname(reads[1]) = <<".", "S", "V", "G">>
    /\ imageData = <<"d", "a", "t", "a", ":", "i", "m", "a", "g", "e", "/", "s", "v", "g", "+", "x", "m", "l", ";", "b", "a", "s", "e", "6", "4", ",", "T", "W", "F", "u", "I", "Q", "=", "=">>

\* ------------------------------------------- claims: handlers (control)

\* C17 as stated: an invocation that ends in a failure has shown an error
\* message to the user that tells the failure.
C17_EveryErrorSurfaced ==
    pc = "failed" =>
        /\ msgs # <<>>
        /\ msgs[Len(msgs)].kind = "error"
        /\ msgs[Len(msgs)].text = err

\* The place of a step in the order of the handler.
StepRank(step) ==
    CASE step = "located" -> 1
      [] step = "provider" -> 2
      [] step \in {"src", "alt"} -> 3
      [] step = "resolved" -> 4
      [] step = "apiKey" -> 5
      [] step = "aiRequest" -> 6
      [] step = "aiResponse" -> 7
      [] step = "rewritten" -> 8
      [] step = "applyEdit" -> 9

\* C18: in a suggest invocation every step happens at most once and in the
\* order locate, extract src, resolve, AI request, rewrite, edit; the request
\* is sent only after the tag was located, the provider found, the src
\* extracted, the source resolved and the API key found; the edit is applied
\* only after the response came; no file is read twice and no request sent
\* twice.
C18_StepsInOrder ==
    cmd = "suggest" =>
        /\ \A i, j \in DOMAIN steps :
              i < j => StepRank(steps[i]) < StepRank(steps[j])
        /\ Len(reads) <= 1
        /\ Len(edits) <= 1
        /\ HasStep("aiRequest") =>
              /\ imgElement # Null
              /\ imageData # Null
              /\ \A n \in {"located", "provider", "src", "resolved", "apiKey"} :
                    HasStep(n)
        /\ (edits # <<>> \/ HasStep("rewritten") \/ HasStep("applyEdit")) =>
              (HasStep("aiRequest") /\ HasStep("aiResponse") /\ err = "")
        /\ pc = "failed" => edits = <<>>

\* C18 witness: a suggest invocation went through every step once, read one
\* file and applied one edit.
C18_Witness ==
    /\ cmd = "suggest"
    /\ pc = "done"
    /\ steps = <<"located", "provider", "src", "resolved", "apiKey",
                 "aiRequest", "aiResponse", "rewritten", "applyEdit">>
    /\ Len(reads) = 1
    /\ Len(edits) = 1

\* ------------------------------------------ claims: rewriter (attribute names)

\* Whether the tag has an attribute whose name ends in -alt.
HasAltSuffixName(tag) ==
    \E p \in 1..(Len(tag) - 3) : tag[p] = "-" /\ MatchesAtCI(tag, p, AltName)

\* C19 as stated: a tag with no alt attribute but with a quoted attribute
\* whose name ends in alt, such as data-alt, gets alt="<newAltValue>" put
\* before its closing '>' and is otherwise unchanged.
C19_WholeNameMatch ==
    (FirstRewriteDone /\ ~HasAltName(FirstTag) /\ HasAltSuffixName(FirstTag)
        /\ PlainValue(altText)) =>
        newImgElement =
            Substring(FirstTag, 0, Len(FirstTag) - 1)
                \o <<" ">> \o AltAttr(altText) \o <<">">>

\* ------------------------------------------- claims: two invocations

BothFinished == pc \in {"done", "failed"} /\ other.pc \in {"done", "failed"}

\* Both invocations located the same tag of the document as it was.
SameTagLocated ==
    /\ imgElement # Null
    /\ other.imgElement = imgElement
    /\ other.locStart = locStart
    /\ Substring(doc0, locStart, locStart + Len(imgElement)) = imgElement

\* The number of attributes of the tag whose whole name is alt.
AltNameCount(tag) ==
    Cardinality({p \in 1..(Len(tag) - 3) :
                    IsWs(tag[p]) /\ MatchesAtCI(tag, p, AltName)})

\* C20 as stated: when two invocations that located the same tag have both
\* ended, the text before the tag and the text after it are as they were
\* and the tag has at most one alt attribute.
C20_OverlapKeepsDocument ==
    (BothFinished /\ SameTagLocated) =>
        LET spanEnd == locStart + Len(imgElement)
            tail == Len(doc0) - spanEnd
        IN  /\ Substring(doc, 0, locStart) = Substring(doc0, 0, locStart)
            /\ Len(doc) >= locStart + tail
            /\ Substring(doc, Len(doc) - tail, Len(doc))
                  = Substring(doc0, spanEnd, Len(doc0))
            /\ AltNameCount(Substring(doc, locStart, Len(doc) - tail)) <= 1

\* ------------------------------------------- claims: success notification

SuccessText == "Alt text generated and inserted successfully!"

\* Whether a notification of the kind was shown in the invocation.
Shown(kind) == \E i \in 1..Len(msgs) : msgs[i].kind = kind

SuccessShown ==
    \E i \in 1..Len(msgs) : msgs[i] = InfoMsg(SuccessText)

\* C21 as stated: the success notification is shown only in an invocation
\* whose edit was applied to the document (none is shown when applyEdit
\* reports that the edit was not applied), and no invocation shows both a
\* success notification and an error message.
C21_SuccessOnlyWhenApplied ==
    /\ SuccessShown => edits # <<>>
    /\ ~(SuccessShown /\ Shown("error"))

=============================================================================
